---- MODULE Spec2Model ----
(***************************************************************************)
(* A model of the mythril browser library: the cross-origin script-tag RPC *)
(* transport (mythril.rpc), the widget registry and widget base class      *)
(* (mythril.create, mythril.Widget) and the same-origin XHR transport      *)
(* (mythril.post).  JavaScript runs one task at a time: every action below *)
(* is one task (a call from host code, a script executed by the browser,   *)
(* a timer, an event), except that the overridable widget hooks, which are *)
(* user code that may call back into the library, are entered and left in  *)
(* separate steps with an explicit call stack.                             *)
(***************************************************************************)
EXTENDS Integers, Sequences, FiniteSets, TLC

\* ---------------------------------------------------------------- bounds
MaxCalls == 3          \* rpc calls issued in a behaviour of Spec
MaxWidgetCalls == 1    \* rpc calls issued in a behaviour of SpecWidget
MaxWidgets == 2        \* widget instances constructed
MaxDepth == 2          \* nested mythril.create calls (hooks calling create)
MaxDestroy == 2        \* calls of one widget's destroy hook
MaxPosts == 2          \* post calls issued in a behaviour of SpecPost
MaxStatusPosts == 1    \* post calls issued in a behaviour of SpecStatus

\* ------------------------------------------------------- program constants
DefaultTimeout == 10000

\* a JavaScript value given as a timeout: undefined, null or a number
Undefined == [tag |-> "undefined", ms |-> 0]
Null == [tag |-> "null", ms |-> 0]
Ms(n) == [tag |-> "number", ms |-> n]
\* the timeout argument of rpc: omitted or explicitly null (a number given
\* explicitly is handled as the default is, lines 89 and 107)
TimeoutArgs == {Undefined, Null}

Ids == {"a"}                             \* element ids on the page
NoWidget == 0

\* urls are sequences of characters, so that the trailing-slash test and
\* the concatenation of create/_rpc are computed and not assumed
HostURLs == {<<"h">>, <<"h", "/">>}
\* host urls that differ in their first character, so that the url a
\* widget was created with can be told from the url it keeps
NamedHostURLs == {<<"h">>, <<"g", "/">>}
RawURL == <<"u">>
Methods == {"m"}
Datas == {"d"}                           \* the data argument of _rpc
RawData == "r"                           \* the data argument of a direct rpc

\* what a server response passes to the slot it invokes
ServerErrors == {[status |-> 500, text |-> "ERR"]}

VARIABLES
    callbacks,   \* mythril._callbacks: the wrappers, in table order
    head,        \* the injected script elements that are children of head
    calls,       \* one record per mythril.rpc call: its closure and history
    widgets,     \* the registry: element id -> widget instance (or NoWidget)
    inst,        \* the widget instances ever constructed
    stack,       \* the running mythril.create calls, innermost last
    activeX,     \* whether window.ActiveXObject exists (the environment)
    requestsIE,  \* the in-flight list of post (kept when activeX is false)
    xhrs,        \* one record per mythril.post call: request and closure
    unloaded     \* the page has been unloaded

rpcVars == <<callbacks, head, calls>>
widgetVars == <<widgets, inst, stack>>
postVars == <<activeX, requestsIE, xhrs, unloaded>>
vars == <<callbacks, head, calls, widgets, inst, stack,
          activeX, requestsIE, xhrs, unloaded>>

Min(a, b) == IF a < b THEN a ELSE b

\* Array.prototype.splice(start, n) on a 0-based array held as a sequence
Splice(s, start, n) ==
    LET st == Min(start, Len(s))
        dc == Min(n, Len(s) - st)
    IN  SubSeq(s, 1, st) \o SubSeq(s, st + dc + 1, Len(s))

InSeq(s, x) == \E i \in DOMAIN s : s[i] = x

\* the transport's state as one value, so that a handler that calls rpc
\* from inside a callback is still one step
T0 == [callbacks |-> callbacks, head |-> head, calls |-> calls]

\* ------------------------------------------------------------ mythril.rpc
\* rpc(url, data, timeout, complete, error): lines 85-119.  owner is the
\* widget whose _rpc issued the call (NoWidget for a direct call),
\* liveAtIssue whether that widget had its container then, hasError whether
\* _rpc was given a call-specific error handler.  The caller gives both a
\* complete and an error function.
RpcTimeout(timeoutArg) ==
    IF timeoutArg = Undefined THEN Ms(DefaultTimeout) ELSE timeoutArg

Rpc(T, url, data, timeoutArg, owner, liveAtIssue, method, hasError) ==
    LET timeout == RpcTimeout(timeoutArg)
        id == Len(T.calls) + 1
        cidx == Len(T.callbacks)           \* -1 + push(...)
        eidx == Len(T.callbacks) + 1
        call == [url |-> url, request |-> data,
                 script |-> TRUE,          \* the closure's script marker
                 cidx |-> cidx, eidx |-> eidx,
                 src |-> [complete |-> cidx, error |-> eidx],
                 timeoutArg |-> timeoutArg, timeout |-> timeout,
                 timer |-> IF timeout # Null THEN "armed" ELSE "none",
                 owner |-> owner, liveAtIssue |-> liveAtIssue,
                 method |-> method, hasError |-> hasError,
                 nComplete |-> 0, nError |-> 0,
                 data |-> 0, errArgs |-> <<>>,
                 wComplete |-> 0, wError |-> 0, wOnerror |-> 0,
                 wArgs |-> <<>>, wThis |-> NoWidget,
                 late |-> FALSE]
    IN  [callbacks |-> T.callbacks \o <<[call |-> id, kind |-> "complete"],
                                        [call |-> id, kind |-> "error"]>>,
         head |-> <<id>> \o T.head,        \* insertBefore(script, firstChild)
         calls |-> Append(T.calls, call)]

\* cleanup(): lines 101-105.  removeChild throws when the script is not a
\* child of head, and then nothing after it runs.
Cleanup(T, d) ==
    IF ~InSeq(T.head, d) THEN T
    ELSE [callbacks |-> Splice(T.callbacks, T.calls[d].cidx, 2),
          head |-> SelectSeq(T.head, LAMBDA x : x # d),
          calls |-> [T.calls EXCEPT ![d].script = FALSE]]

\* oncomplete without its test of the widget's container
CallCompleteUnguarded(T, W, d, from) ==
    LET c == T.calls[d]
    IN  [T EXCEPT !.calls[d] =
            [c EXCEPT !.nComplete = @ + 1, !.data = from,
                      !.wComplete = IF c.owner # NoWidget THEN @ + 1 ELSE @]]

\* The complete argument of call d is called with the payload of call
\* `from`.  For a call made by Widget._rpc it is oncomplete (lines 197-199).
CallComplete(T, W, d, from) ==
    LET c == T.calls[d]
        live == c.owner # NoWidget /\ W[c.owner].container
    IN  [T EXCEPT !.calls[d] =
            [c EXCEPT !.nComplete = @ + 1, !.data = from,
                      !.wComplete = IF live THEN @ + 1 ELSE @]]

\* onerror of Widget._rpc with the call-specific handler never consulted:
\* the hook of the widget is called whenever the widget is live
CallErrorHookOnly(T, W, d, status, text) ==
    LET c == T.calls[d]
        live == c.owner # NoWidget /\ W[c.owner].container
    IN  [T EXCEPT !.calls[d] =
            [c EXCEPT !.nError = @ + 1, !.errArgs = <<status, text>>,
                      !.wOnerror = IF live THEN @ + 1 ELSE @,
                      !.wArgs = IF live
                                THEN <<c.method, c.request, status, text>>
                                ELSE @,
                      !.wThis = IF live THEN c.owner ELSE @]]

\* The error argument of call d is called with (status, text).  For a call
\* made by Widget._rpc it is onerror (lines 201-209): wArgs and wThis are
\* the arguments and the receiver of the widget-level function it calls.
CallError(T, W, d, status, text) ==
    LET c == T.calls[d]
        live == c.owner # NoWidget /\ W[c.owner].container
    IN  [T EXCEPT !.calls[d] =
            [c EXCEPT !.nError = @ + 1, !.errArgs = <<status, text>>,
                      !.wError = IF live /\ c.hasError THEN @ + 1 ELSE @,
                      !.wOnerror = IF live /\ ~c.hasError THEN @ + 1 ELSE @,
                      !.wArgs = IF ~live THEN @
                                ELSE IF c.hasError THEN <<status, text>>
                                ELSE <<c.method, c.request, status, text>>,
                      !.wThis = IF live THEN c.owner ELSE @]]

\* what the caller's callback does while it runs: nothing, or issue a
\* direct rpc call of its own
Nested(T, nest) ==
    IF nest
    THEN Rpc(T, RawURL, RawData, Undefined, NoWidget, FALSE, "", FALSE)
    ELSE T

\* the wrappers without their test of the script marker
WrapperNoGuard(T, W, d, kind, a, nest) ==
    LET T1 == IF ~T.calls[d].script
              THEN [T EXCEPT !.calls[d].late = TRUE] ELSE T
    IN  Cleanup(Nested(IF kind = "complete"
                       THEN CallComplete(T1, W, d, a.from)
                       ELSE CallError(T1, W, d, a.status, a.text), nest), d)

\* the wrapper pushed at cidx (lines 93-95) or at eidx (lines 97-99) by
\* call d, invoked with the arguments a
Wrapper(T, W, d, kind, a, nest) ==
    IF ~T.calls[d].script
    THEN [T EXCEPT !.calls[d].late = TRUE]
    ELSE Cleanup(Nested(IF kind = "complete"
                        THEN CallComplete(T, W, d, a.from)
                        ELSE CallError(T, W, d, a.status, a.text), nest), d)

\* the timeout handler without its test of the script marker
TimeoutHandlerNoGuard(T, W, d, nest) ==
    Cleanup(Nested(CallError([T EXCEPT !.calls[d].timer = "fired"],
                             W, d, -1, ""), nest), d)

\* the setTimeout callback of call d: lines 108-110
TimeoutHandler(T, W, d, nest) ==
    LET T1 == [T EXCEPT !.calls[d].timer = "fired"]
    IN  IF ~T1.calls[d].script
        THEN T1
        ELSE Cleanup(Nested(CallError(T1, W, d, -1, ""), nest), d)

\* The script returned for call c runs mythril._callbacks[i] with i the
\* index written into c's script URL (lines 115-116).  An index past the
\* end of the table is undefined, calling it is a TypeError in the served
\* script and changes nothing.
ServerResponse(T, W, c, kind, a, nest) ==
    LET i == IF kind = "complete" THEN T.calls[c].src.complete
                                  ELSE T.calls[c].src.error
    IN  IF i >= Len(T.callbacks) THEN T
        ELSE Wrapper(T, W, T.callbacks[i + 1].call, T.callbacks[i + 1].kind,
                     a, nest)

SetT(T) ==
    /\ callbacks' = T.callbacks
    /\ head' = T.head
    /\ calls' = T.calls

CanNest(nest, max) == nest => Len(calls) < max

\* host code calls mythril.rpc directly
RpcCall(timeoutArg) ==
    /\ stack = <<>>
    /\ Len(calls) < MaxCalls
    /\ SetT(Rpc(T0, RawURL, RawData, timeoutArg, NoWidget, FALSE, "", FALSE))
    /\ UNCHANGED <<widgets, inst, stack, postVars>>

\* the browser runs the script served for call c
ServerInvoke(c, kind, a, nest, max) ==
    /\ stack = <<>>
    /\ CanNest(nest, max)
    /\ SetT(ServerResponse(T0, inst, c, kind, a, nest))
    /\ UNCHANGED <<widgets, inst, stack, postVars>>

ServerComplete(max) ==
    \E c \in DOMAIN calls, nest \in BOOLEAN :
        ServerInvoke(c, "complete", [from |-> c], nest, max)

ServerError(max) ==
    \E c \in DOMAIN calls, e \in ServerErrors, nest \in BOOLEAN :
        ServerInvoke(c, "error", [from |-> c, status |-> e.status,
                                  text |-> e.text], nest, max)

\* the timer of call c fires
Timeout(max) ==
    \E c \in DOMAIN calls, nest \in BOOLEAN :
        /\ stack = <<>>
        /\ calls[c].timer = "armed"
        /\ CanNest(nest, max)
        /\ SetT(TimeoutHandler(T0, inst, c, nest))
        /\ UNCHANGED <<widgets, inst, stack, postVars>>

\* --------------------------------------------- mythril.create and Widget
Top == stack[Len(stack)]
Pop == SubSeq(stack, 1, Len(stack) - 1)

\* create without lines 128-130: the host url is passed on as it is given
NormalizeHostURLNone(hostURL) == hostURL

\* lines 128-130: one trailing slash is cut off the host url
NormalizeHostURL(hostURL) ==
    IF Len(hostURL) > 0 /\ hostURL[Len(hostURL)] = "/"
    THEN SubSeq(hostURL, 1, Len(hostURL) - 1)
    ELSE hostURL

\* new WidgetClass(elem, data, hostURL, links) up to the call of init:
\* lines 147-151.  The element with the given id is on the page.
\* prev is the widget create found registered, returned whether the create
\* call that constructed the widget has returned.
Construct(W, id, hostURL, prev) ==
    Append(W, [id |-> id, container |-> TRUE, hostURL |-> hostURL,
               prev |-> prev, returned |-> FALSE,
               nInit |-> 1, nDestroy |-> 0, destroying |-> 0])

\* existing._destroy() up to the call of the destroy hook: line 156
EnterDestroy(W, e) ==
    [W EXCEPT ![e].nDestroy = @ + 1, ![e].destroying = @ + 1]

\* existing._destroy() after the destroy hook returned: line 157
LeaveDestroy(W, e) ==
    [W EXCEPT ![e].destroying = @ - 1, ![e].container = FALSE]

\* mythril.create(WidgetClass, id, data, hostURL, links), called by host
\* code or by a hook that is running, up to the first hook it calls:
\* lines 125-132
CreateCall(id, hostURL) ==
    LET existing == widgets[id]
        url == NormalizeHostURL(hostURL)
    IN  /\ Len(stack) < MaxDepth
        /\ IF existing # NoWidget
           THEN /\ inst[existing].nDestroy < MaxDestroy
                /\ inst' = EnterDestroy(inst, existing)
                /\ stack' = Append(stack, [id |-> id, existing |-> existing,
                                           hostURL |-> url, new |-> NoWidget,
                                           pc |-> "destroy"])
           ELSE /\ Len(inst) < MaxWidgets
                /\ inst' = Construct(inst, id, url, NoWidget)
                /\ stack' = Append(stack, [id |-> id, existing |-> existing,
                                           hostURL |-> url,
                                           new |-> Len(inst) + 1,
                                           pc |-> "init"])
        /\ UNCHANGED <<callbacks, head, calls, widgets, postVars>>

\* the destroy hook of the widget being replaced returns: line 157, then
\* line 132 up to the call of the new widget's init
DestroyReturn ==
    /\ stack # <<>>
    /\ Top.pc = "destroy"
    /\ Len(inst) < MaxWidgets
    /\ inst' = Construct(LeaveDestroy(inst, Top.existing), Top.id,
                         Top.hostURL, Top.existing)
    /\ stack' = [stack EXCEPT ![Len(stack)].new = Len(inst) + 1,
                              ![Len(stack)].pc = "init"]
    /\ UNCHANGED <<callbacks, head, calls, widgets, postVars>>

\* the init hook of the new widget returns: the assignment of line 132
InitReturn ==
    /\ stack # <<>>
    /\ Top.pc = "init"
    /\ widgets' = [widgets EXCEPT ![Top.id] = Top.new]
    /\ inst' = [inst EXCEPT ![Top.new].returned = TRUE]
    /\ stack' = Pop
    /\ UNCHANGED <<callbacks, head, calls, postVars>>

\* the init hook that is running throws: neither the constructor nor
\* create has a handler, the exception leaves create before the assignment
\* of line 132 and reaches the code that called create (the enclosing
\* hook, which goes on if it catches it, or host code)
HookThrow ==
    /\ stack # <<>>
    /\ Top.pc = "init"
    /\ stack' = Pop
    /\ UNCHANGED <<callbacks, head, calls, widgets, inst, postVars>>

\* the widget whose code is running inside the innermost hook
Running == IF Top.pc = "destroy" THEN Top.existing ELSE Top.new

\* Widget._rpc(methodName, data, complete, error): lines 194-213, called by
\* the widget's own code: a hook that is running, or an event listener
\* (listeners stay attached to the element after _destroy)
WidgetRpc(w, method, data, hasError) ==
    /\ stack # <<>> => w = Running
    /\ Len(calls) < MaxWidgetCalls
    /\ SetT(Rpc(T0, inst[w].hostURL \o <<"/", method>>, data, Undefined, w,
                inst[w].container, method, hasError))
    /\ UNCHANGED <<widgets, inst, stack, postVars>>

\* ----------------------------------------------------------- mythril.post
\* The source of post declares requestsIE and widgets inside its var
\* statement with a colon (lines 6-7); they are read as the declarations
\* with initialisers they stand for.  requestsIE is an array when
\* window.ActiveXObject is absent and undefined otherwise.
\* text that may be undefined (a JavaScript variable never assigned)
NoText == [defined |-> FALSE, text |-> <<>>]
Text(t) == [defined |-> TRUE, text |-> t]

\* params: a pre-encoded string, or a flat mapping held in iteration order
Str(t) == [type |-> "string", str |-> t, pairs |-> <<>>]
Obj(ps) == [type |-> "object", str |-> <<>>, pairs |-> ps]
ParamsSet ==
    { Str(<<"a", "=", "1">>),
      Obj(<< <<<<"a">>, <<"1">>>>, <<<<"b">>, <<"x", " ", "&">>>> >>) }

\* encodeURIComponent, on the characters the model uses
EncodeChar(ch) ==
    CASE ch = " " -> <<"%", "2", "0">>
      [] ch = "&" -> <<"%", "2", "6">>
      [] ch = "=" -> <<"%", "3", "D">>
      [] ch = "%" -> <<"%", "2", "5">>
      [] OTHER -> <<ch>>

RECURSIVE encodeURIComponent(_)
encodeURIComponent(t) ==
    IF t = <<>> THEN <<>>
    ELSE EncodeChar(Head(t)) \o encodeURIComponent(Tail(t))

\* urlSerialize(obj): lines 24-31
RECURSIVE urlSerializeFrom(_, _)
urlSerializeFrom(ps, fst) ==
    IF ps = <<>> THEN <<>>
    ELSE (IF fst THEN <<>> ELSE <<"&">>)
         \o encodeURIComponent(Head(ps)[1]) \o <<"=">>
         \o encodeURIComponent(Head(ps)[2])
         \o urlSerializeFrom(Tail(ps), FALSE)

urlSerialize(ps) == urlSerializeFrom(ps, TRUE)

\* line 85: the variable bodyText is read in its own initialiser, where it
\* is still undefined
BodyText(params) ==
    IF params.type = "string" THEN NoText ELSE Text(urlSerialize(params.pairs))

\* line 90: every falsy timeout becomes the default (a number other than 0
\* is kept as it is)
PostDefaultTimeout == 10000
PostTimeoutArgs == {Undefined, Null, Ms(0)}
PostTimeout(timeoutArg) ==
    IF timeoutArg \in {Undefined, Null, Ms(0)} THEN Ms(PostDefaultTimeout)
    ELSE timeoutArg

\* what a response can carry: the status codes on both sides of the two
\* ends of the 2xx range, and their status texts
Statuses == {199, 200, 299, 300}
StatusText(st) ==
    CASE st = 199 -> "Info" [] st = 200 -> "OK" [] st = 299 -> "Success"
      [] st = 300 -> "Multiple Choices" [] OTHER -> ""

\* xhr.status, xhr.statusText and xhr.responseText as the request object
\* exposes them in its current state
XhrStatus(r) == IF r.readyState >= 2 THEN r.status ELSE 0
XhrResponseText(r) ==
    CASE r.readyState = 4 -> "full" [] r.readyState = 3 -> "partial"
      [] OTHER -> ""

P0 == [requestsIE |-> requestsIE, xhrs |-> xhrs]

\* onComplete with success meaning status 200 only
OnCompleteOnly200(P, x, aborted, throws) ==
    LET r == P.xhrs[x]
        status == IF throws THEN -1 ELSE XhrStatus(r)
        statusText == IF throws THEN "" ELSE StatusText(XhrStatus(r))
        ok == status = 200
        r1 == [r EXCEPT !.handler = "noop",
                        !.nComplete = IF ok THEN @ + 1 ELSE @,
                        !.gotBody = IF ok THEN XhrResponseText(r) ELSE @,
                        !.nError = IF ok THEN @ ELSE @ + 1,
                        !.errArgs = IF ok THEN @ ELSE <<status, statusText>>,
                        !.xhrVar = FALSE]
    IN  IF ~r.xhrVar THEN P
        ELSE IF ~(aborted \/ r.readyState = 4) THEN P
        ELSE [requestsIE |-> IF ~activeX
                             THEN Splice(P.requestsIE, r.xhrIdx, 1)
                             ELSE P.requestsIE,
              xhrs |-> [P.xhrs EXCEPT ![x] = r1]]

\* onComplete(_, aborted): lines 106-121.  throws: reading xhr.status and
\* xhr.statusText throws (the two try blocks of lines 112-113).  When the
\* closure's xhr is already undefined, line 109 or 110 is a TypeError.
OnComplete(P, x, aborted, throws) ==
    LET r == P.xhrs[x]
        status == IF throws THEN -1 ELSE XhrStatus(r)
        statusText == IF throws THEN "" ELSE StatusText(XhrStatus(r))
        ok == (status \div 100) = 2
        r1 == [r EXCEPT !.handler = "noop",
                        !.nComplete = IF ok THEN @ + 1 ELSE @,
                        !.gotBody = IF ok THEN XhrResponseText(r) ELSE @,
                        !.nError = IF ok THEN @ ELSE @ + 1,
                        !.errArgs = IF ok THEN @ ELSE <<status, statusText>>,
                        !.xhrVar = FALSE]
    IN  IF ~r.xhrVar THEN P
        ELSE IF ~(aborted \/ r.readyState = 4) THEN P
        ELSE [requestsIE |-> IF ~activeX
                             THEN Splice(P.requestsIE, r.xhrIdx, 1)
                             ELSE P.requestsIE,
              xhrs |-> [P.xhrs EXCEPT ![x] = r1]]

SetP(P) ==
    /\ requestsIE' = P.requestsIE
    /\ xhrs' = P.xhrs

\* post(url, params, timeout, complete, error): lines 83-128.  sync: the
\* request is already complete, with the given status, when send returns.
Post(params, timeoutArg, sync, st) ==
    LET bodyText == BodyText(params)
        x == Len(xhrs) + 1
        list == IF ~activeX THEN Append(requestsIE, x) ELSE requestsIE
        r == [params |-> params,
              readyState |-> 1, status |-> 0, sent |-> FALSE,
              aborted |-> FALSE, handler |-> "none",
              xhrIdx |-> IF ~activeX THEN Len(list) ELSE 0,  \* push(xhr)
              xhrVar |-> TRUE, body |-> bodyText, contentLength |-> 0,
              timeout |-> PostTimeout(timeoutArg), timer |-> "none",
              nComplete |-> 0, nError |-> 0, errArgs |-> <<>>,
              gotBody |-> ""]
        sent == [r EXCEPT !.sent = TRUE,
                          !.contentLength = Len(bodyText.text),
                          !.readyState = IF sync THEN 4 ELSE 1,
                          !.status = IF sync THEN st ELSE 0]
        P1 == [requestsIE |-> list, xhrs |-> Append(xhrs, sent)]
    IN  /\ ~unloaded
        /\ Len(xhrs) < MaxPosts
        /\ ~sync => st = 0          \* no response yet: st is not used
        /\ IF ~bodyText.defined
           THEN \* bodyText.length, line 101: a TypeError leaves post
                SetP([requestsIE |-> list, xhrs |-> Append(xhrs, r)])
           ELSE IF sync
           THEN SetP(OnComplete(P1, x, FALSE, FALSE))       \* line 123
           ELSE SetP([P1 EXCEPT !.xhrs[x].handler = "onComplete",
                                !.xhrs[x].timer = "armed"]) \* lines 125-126
        /\ UNCHANGED <<rpcVars, widgetVars, activeX, unloaded>>

\* the request makes progress and the browser fires readystatechange; to is
\* the next readyState (4 at once when the network fails, with status 0)
ReadyStateChange(x, to, st) ==
    LET r == xhrs[x]
        r1 == [r EXCEPT !.readyState = to,
                        !.status = IF r.readyState = 1
                                   THEN (IF to = 4 /\ st = 0 THEN 0 ELSE st)
                                   ELSE @]
        P1 == [P0 EXCEPT !.xhrs[x] = r1]
    IN  /\ ~unloaded
        /\ r.sent /\ ~r.aborted /\ r.readyState \in 1..3
        /\ to = r.readyState + 1 \/ (to = 4 /\ r.readyState = 1 /\ st = 0)
        /\ (r.readyState = 1 /\ to = 2) => st # 0
        /\ r.readyState # 1 => st = 0   \* the status is already known
        /\ SetP(IF r.handler = "onComplete"
                THEN OnComplete(P1, x, FALSE, FALSE) ELSE P1)
        /\ UNCHANGED <<rpcVars, widgetVars, activeX, unloaded>>

\* the timer of line 126 fires
PostTimer(x, throws) ==
    LET P1 == [P0 EXCEPT !.xhrs[x].timer = "fired"]
    IN  /\ ~unloaded
        /\ xhrs[x].timer = "armed"
        /\ throws => xhrs[x].readyState # 4
        /\ SetP(OnComplete(P1, x, TRUE, throws))
        /\ UNCHANGED <<rpcVars, widgetVars, activeX, unloaded>>

\* xhr.abort()
Abort(r) ==
    [r EXCEPT !.aborted = TRUE, !.readyState = 0, !.status = 0]

\* the page is unloaded; the handler of lines 145-150 is attached when
\* requestsIE is defined
Unload ==
    /\ ~unloaded
    /\ unloaded' = TRUE
    /\ xhrs' = [x \in DOMAIN xhrs |->
                  IF ~activeX /\ InSeq(requestsIE, x)
                  THEN Abort([xhrs[x] EXCEPT !.handler = "noop"])
                  ELSE xhrs[x]]
    /\ UNCHANGED <<rpcVars, widgetVars, activeX, requestsIE>>

Init ==
    /\ callbacks = <<>>
    /\ head = <<>>
    /\ calls = <<>>
    /\ widgets = [i \in Ids |-> NoWidget]
    /\ inst = <<>>
    /\ stack = <<>>
    /\ activeX = FALSE
    /\ requestsIE = <<>>
    /\ xhrs = <<>>
    /\ unloaded = FALSE

Next ==
    \/ \E t \in TimeoutArgs : RpcCall(t)
    \/ ServerComplete(MaxCalls)
    \/ ServerError(MaxCalls)
    \/ Timeout(MaxCalls)

Spec == Init /\ [][Next]_vars

NextWidget ==
    \/ \E id \in Ids, h \in HostURLs : CreateCall(id, h)
    \/ DestroyReturn
    \/ InitReturn
    \/ HookThrow
    \/ \E w \in DOMAIN inst, m \in Methods, d \in Datas, e \in BOOLEAN :
          WidgetRpc(w, m, d, e)
    \/ ServerComplete(MaxWidgetCalls)
    \/ ServerError(MaxWidgetCalls)
    \/ Timeout(MaxWidgetCalls)

SpecWidget == Init /\ [][NextWidget]_vars

\* widgets created with the named host urls and the calls they issue (the
\* url of a call is fixed when it is issued)
NextHost ==
    \/ \E id \in Ids, h \in NamedHostURLs : CreateCall(id, h)
    \/ DestroyReturn
    \/ InitReturn
    \/ HookThrow
    \/ \E w \in DOMAIN inst, m \in Methods, d \in Datas, e \in BOOLEAN :
          WidgetRpc(w, m, d, e)

SpecHost == Init /\ [][NextHost]_vars

InitPost ==
    /\ callbacks = <<>>
    /\ head = <<>>
    /\ calls = <<>>
    /\ widgets = [i \in Ids |-> NoWidget]
    /\ inst = <<>>
    /\ stack = <<>>
    /\ activeX \in BOOLEAN
    /\ requestsIE = <<>>
    /\ xhrs = <<>>
    /\ unloaded = FALSE

NextPost ==
    \/ \E p \in ParamsSet, t \in PostTimeoutArgs, sync \in BOOLEAN,
          st \in Statuses \cup {0} : Post(p, t, sync, st)
    \/ \E x \in DOMAIN xhrs, to \in 2..4, st \in Statuses \cup {0} :
          ReadyStateChange(x, to, st)
    \/ \E x \in DOMAIN xhrs, throws \in BOOLEAN : PostTimer(x, throws)
    \/ Unload

SpecPost == InitPost /\ [][NextPost]_vars

\* the same transport with fewer calls, for what holds of each call by itself
NextStatus ==
    \/ /\ Len(xhrs) < MaxStatusPosts
       /\ \E p \in ParamsSet, t \in PostTimeoutArgs, sync \in BOOLEAN,
             st \in Statuses \cup {0} : Post(p, t, sync, st)
    \/ \E x \in DOMAIN xhrs, to \in 2..4, st \in Statuses \cup {0} :
          ReadyStateChange(x, to, st)
    \/ \E x \in DOMAIN xhrs, throws \in BOOLEAN : PostTimer(x, throws)
    \/ Unload

SpecStatus == InitPost /\ [][NextStatus]_vars

\* ================================================================ claims
\* ------------------------------------------- cross-origin transport (Spec)
Callbacks(c) == calls[c].nComplete + calls[c].nError
Pending(c) == calls[c].script
OwnSlots(c) == {i \in DOMAIN callbacks : callbacks[i].call = c}

\* C1: for every rpc call issued with a non-null timeout, under every
\* interleaving of server invocations of its slots, duplicates, its timer
\* and other calls, the caller's complete and error callbacks are invoked
\* at most once between them, and a call none of whose callbacks has been
\* invoked still has its timer to come (so once the timer has fired exactly
\* one callback has been invoked exactly once).
C1_ExactlyOneCallback ==
    \A c \in DOMAIN calls :
        calls[c].timeout # Null =>
            /\ Callbacks(c) <= 1
            /\ Callbacks(c) = 0 => calls[c].timer = "armed"

\* a call resolved by the server whose timer fired afterwards, next to a
\* call resolved by its timer whose wrapper was invoked again afterwards
C1_Witness ==
    \E c, d \in DOMAIN calls :
        /\ c # d
        /\ calls[c].timer = "fired" /\ calls[c].nComplete = 1
        /\ calls[d].timer = "fired" /\ calls[d].nError = 1 /\ calls[d].late

\* C3: while a call is pending, the two indices written into its script URL
\* are the table slots that hold its own completion and error wrappers, and
\* a callback that ran on a server response got the payload served for its
\* own call.
C3_UrlIndicesReferToOwnWrappers ==
    /\ \A c \in DOMAIN calls :
          Pending(c) =>
            /\ calls[c].src.error < Len(callbacks)
            /\ callbacks[calls[c].src.complete + 1]
                  = [call |-> c, kind |-> "complete"]
            /\ callbacks[calls[c].src.error + 1]
                  = [call |-> c, kind |-> "error"]
    /\ \A c \in DOMAIN calls : calls[c].data \in {0, c}

\* C4: a resolved call has its script element out of the head and neither
\* of its wrappers in the table; when no call is pending the table is empty.
C4_ResolvedCallIsRemoved ==
    /\ \A c \in DOMAIN calls :
          ~Pending(c) => ~InSeq(head, c) /\ OwnSlots(c) = {}
    /\ (\A c \in DOMAIN calls : ~Pending(c)) => callbacks = <<>>

\* C10: when the timer of an unresolved call fires, the caller's error
\* callback is invoked with (-1, '') and the call is cleaned up (script out
\* of the head, both of its slots out of the table); when the timer of a
\* resolved call fires, no callback is invoked and the head and the table
\* stay as they are.
C10_TimeoutResolvesOrIsNoOp ==
    [][\A c \in DOMAIN calls :
        (calls[c].timer = "armed" /\ calls'[c].timer = "fired") =>
            IF Pending(c)
            THEN /\ calls'[c].nError = calls[c].nError + 1
                 /\ calls'[c].nComplete = calls[c].nComplete
                 /\ calls'[c].errArgs = <<-1, "">>
                 /\ ~calls'[c].script
                 /\ ~InSeq(head', c)
                 /\ \A i \in DOMAIN callbacks' : callbacks'[i].call # c
            ELSE /\ UNCHANGED <<head, callbacks>>
                 /\ \A d \in DOMAIN calls :
                       /\ calls'[d].nComplete = calls[d].nComplete
                       /\ calls'[d].nError = calls[d].nError
      ]_vars

\* C11: a call issued with timeout null has no timer, is never resolved by
\* a timeout, and until the server has invoked one of its slots it stays
\* pending with its script element in the head and both of its handlers in
\* the table; a call issued with the timeout omitted has a timer of 10000 ms.
C11_NullTimeoutWaitsForServer ==
    \A c \in DOMAIN calls :
        /\ calls[c].timeoutArg = Null =>
              /\ calls[c].timer = "none"
              /\ calls[c].errArgs # <<-1, "">>
              /\ Callbacks(c) = 0 =>
                    /\ Pending(c)
                    /\ InSeq(head, c)
                    /\ Cardinality(OwnSlots(c)) = 2
        /\ calls[c].timeoutArg = Undefined =>
              /\ calls[c].timeout = Ms(DefaultTimeout)
              /\ calls[c].timer # "none"

\* C17: in every reachable state every pending call has both of its
\* wrappers in the table, at adjacent positions, the completion wrapper
\* immediately before the error wrapper (so the resolution of one call has
\* left the two slots of every other pending call in the table).
C17_PendingCallKeepsAdjacentSlots ==
    \A c \in DOMAIN calls :
        Pending(c) =>
            \E i \in DOMAIN callbacks :
                /\ i + 1 \in DOMAIN callbacks
                /\ callbacks[i] = [call |-> c, kind |-> "complete"]
                /\ callbacks[i + 1] = [call |-> c, kind |-> "error"]
                /\ OwnSlots(c) = {i, i + 1}

\* C18: once a call is resolved, a later invocation of its completion
\* wrapper or of its error wrapper (a late or duplicate server response)
\* or of its timer invokes no callback of any caller and leaves the
\* document head and mythril._callbacks unchanged.
C18_LateInvocationIsNoOp ==
    [][\A d \in DOMAIN calls :
          (/\ ~Pending(d)
           /\ \/ ~calls[d].late /\ calls'[d].late
              \/ calls[d].timer = "armed" /\ calls'[d].timer = "fired") =>
              /\ UNCHANGED <<head, callbacks>>
              /\ DOMAIN calls' = DOMAIN calls
              /\ \A e \in DOMAIN calls :
                    /\ calls'[e].nComplete = calls[e].nComplete
                    /\ calls'[e].nError = calls[e].nError
      ]_vars

\* a call resolved by a server response whose wrapper was then invoked once
\* more and whose timer fired after that
C18_Witness ==
    \E d \in DOMAIN calls :
        /\ ~Pending(d)
        /\ calls[d].nComplete = 1 /\ calls[d].nError = 0
        /\ calls[d].late
        /\ calls[d].timer = "fired"

\* C19: a server response produced for one call never makes the callback
\* of a different call run and never removes a different call's script
\* element: in every step in which the complete callback of a call b is
\* invoked (and b's script element leaves the head), the response that
\* invoked it is the one served for b.
C19_ResponseReachesOnlyItsCall ==
    [][\A b \in DOMAIN calls :
          (calls'[b].nComplete = calls[b].nComplete + 1
              /\ InSeq(head, b) /\ ~InSeq(head', b)) =>
              calls'[b].data = b
      ]_vars
\* ------------------------------------------ widget registry (SpecWidget)
Live(n) == inst[n].container
WidgetHandlers(c) == calls[c].wComplete + calls[c].wError + calls[c].wOnerror

\* C5: when create is called for an id that has a registered widget, then
\* while the second widget's init runs the first widget's destroy hook has
\* been invoked exactly once and its element reference is released, and
\* when create returns the registry maps the id to the second widget.
C5_SecondCreateDestroysFirstOnce ==
    [][/\ \A i \in DOMAIN stack' :
            (stack'[i].pc = "init" /\ stack'[i].existing # NoWidget) =>
                /\ inst'[stack'[i].existing].nDestroy = 1
                /\ ~inst'[stack'[i].existing].container
       /\ \A n \in DOMAIN inst :
            (inst[n].prev # NoWidget /\ ~inst[n].returned
                /\ inst'[n].returned) =>
                /\ widgets'[inst[n].id] = n
                /\ inst'[inst[n].prev].nDestroy = 1
      ]_vars

\* C6: in every reachable state every element id has at most one live
\* widget (constructed by create for the id, container not released),
\* create calls made from inside init and destroy hooks included.
C6_AtMostOneLiveWidgetPerId ==
    \A id \in Ids :
        Cardinality({n \in DOMAIN inst : inst[n].id = id /\ Live(n)}) <= 1

\* C7: once the widget that issued a call through _rpc has been destroyed
\* (its container released), no step - the call's completion slot, its
\* error slot or its timeout - invokes the caller's complete handler, the
\* caller's error handler or the widget's onerror hook for that call.
C7_DestroyedWidgetCallbacksAreNoOps ==
    [][\A c \in DOMAIN calls :
          (calls[c].owner # NoWidget /\ ~Live(calls[c].owner)) =>
              /\ calls'[c].wComplete = calls[c].wComplete
              /\ calls'[c].wError = calls[c].wError
              /\ calls'[c].wOnerror = calls[c].wOnerror
      ]_vars

\* a call issued by a live widget that was replaced through create before
\* the transport fired, and the transport has fired since
C7_Witness ==
    \E c \in DOMAIN calls :
        /\ calls[c].owner # NoWidget
        /\ calls[c].liveAtIssue
        /\ ~Live(calls[c].owner)
        /\ widgets[inst[calls[c].owner].id] # calls[c].owner
        /\ Callbacks(c) = 1
        /\ WidgetHandlers(c) = 0

\* C12: for every widget instance the destroy hook is invoked at most once
\* over its life and is never entered while an earlier invocation on the
\* same instance is still running, whatever create calls are made on its
\* id (from inside destroy or init, or after a constructor that threw).
C12_DestroyHookAtMostOnce ==
    \A n \in DOMAIN inst :
        /\ inst[n].nDestroy <= 1
        /\ inst[n].destroying <= 1

\* C13: when the rpc-level error function of a call issued through _rpc is
\* called (by the error slot or by the timeout) while the widget is live:
\* without a call-specific error handler the widget's onerror hook is
\* invoked, once for the call, with (methodName, request data, status,
\* statusText); with one, that handler is invoked with (status, statusText)
\* and the widget as receiver, and the onerror hook is not invoked.
C13_WidgetRpcFailureHandler ==
    [][\A c \in DOMAIN calls :
          (calls[c].owner # NoWidget /\ Live(calls[c].owner)
              /\ calls'[c].nError = calls[c].nError + 1) =>
              IF calls[c].hasError
              THEN /\ calls'[c].wError = calls[c].wError + 1
                   /\ calls'[c].wOnerror = 0
                   /\ calls'[c].wArgs = calls'[c].errArgs
                   /\ calls'[c].wThis = calls[c].owner
              ELSE /\ calls'[c].wOnerror = 1
                   /\ calls'[c].wError = 0
                   /\ calls'[c].wArgs = <<calls[c].method, calls[c].request>>
                                            \o calls'[c].errArgs
                   /\ calls'[c].wThis = calls[c].owner
      ]_vars

\* a live widget's call without an error handler failed on the server's
\* error response and the onerror hook got the four arguments
C13_Witness ==
    \E c \in DOMAIN calls :
        /\ calls[c].owner # NoWidget
        /\ Live(calls[c].owner)
        /\ ~calls[c].hasError
        /\ calls[c].nError = 1
        /\ calls[c].wOnerror = 1
        /\ Len(calls[c].wArgs) = 4
        /\ calls[c].wArgs[3] = 500

\* the host url, out of the named ones, that widget n was created with
GivenHostURL(n) ==
    CHOOSE h \in NamedHostURLs : h[1] = inst[n].hostURL[1]

\* C16: a widget created with a hostURL that ends in a slash issues its
\* _rpc calls to the hostURL without that slash, then '/', then the method
\* name; a hostURL without a trailing slash is used unchanged.
C16_OneSlashBeforeMethod ==
    \A c \in DOMAIN calls :
        calls[c].owner # NoWidget =>
            LET h == GivenHostURL(calls[c].owner)
                base == IF h[Len(h)] = "/" THEN SubSeq(h, 1, Len(h) - 1)
                        ELSE h
            IN  /\ calls[c].url = base \o <<"/", calls[c].method>>
                /\ calls[c].url \in {<<"h", "/", "m">>, <<"g", "/", "m">>}

\* a call issued by a widget that was created with "g/"
C16_Witness ==
    \E c \in DOMAIN calls :
        /\ calls[c].owner # NoWidget
        /\ GivenHostURL(calls[c].owner) = <<"g", "/">>
        /\ calls[c].url = <<"g", "/", "m">>

\* C20: at every point where widget code can run (inside init and destroy
\* hooks, between create calls, after a create whose constructor threw)
\* every widget stored in the registry, and so every widget a link lookup
\* returns, is live: _destroy has not completed on it and its container
\* reference is still set.
C20_RegistryHoldsOnlyLiveWidgets ==
    \A id \in Ids :
        widgets[id] # NoWidget => Live(widgets[id])
\* ------------------------------------------ same-origin transport (SpecPost)
PostCallbacks(x) == xhrs[x].nComplete + xhrs[x].nError
Outstanding(x) == xhrs[x].sent /\ xhrs[x].xhrVar

\* C2: for every post call, onComplete and onError are invoked at most once
\* between them, and a call neither of whose callbacks has been invoked
\* still has its timer to come, under every ordering of readystatechange
\* events and the timer, a request already complete when send returns and
\* a timer firing after the response was delivered included.
C2_PostExactlyOneCallback ==
    \A x \in DOMAIN xhrs :
        /\ PostCallbacks(x) <= 1
        /\ PostCallbacks(x) = 0 => xhrs[x].timer = "armed"

\* C8: the in-flight list holds exactly the requests that were sent and are
\* not yet resolved, each once, so that at unload every outstanding request
\* has been aborted and detached from its handler.
C8_InFlightListIsExact ==
    ~activeX =>
        /\ ~unloaded =>
              \A x \in DOMAIN xhrs : InSeq(requestsIE, x) <=> Outstanding(x)
        /\ \A i, j \in DOMAIN requestsIE :
              requestsIE[i] = requestsIE[j] => i = j
        /\ unloaded =>
              \A x \in DOMAIN xhrs :
                  Outstanding(x) =>
                      xhrs[x].aborted /\ xhrs[x].handler = "noop"

\* C9: when the timer fires for a post that has not completed (readyState
\* is not 4), onError is invoked with (-1, '') and onComplete is not
\* invoked, whatever status and partial body the request exposes.
C9_PostTimeoutReportsMinusOne ==
    [][\A x \in DOMAIN xhrs :
          (xhrs[x].timer = "armed" /\ xhrs'[x].timer = "fired"
              /\ xhrs[x].xhrVar /\ xhrs[x].readyState # 4) =>
              /\ xhrs'[x].nError = xhrs[x].nError + 1
              /\ xhrs'[x].errArgs = <<-1, "">>
              /\ xhrs'[x].nComplete = xhrs[x].nComplete
      ]_vars


\* C14: post transmits, for params given as a pre-encoded string, exactly
\* that string, and for params given as a flat mapping its URL-encoding
\* (percent-encoded key=value pairs joined by '&' in iteration order), and
\* in both cases Content-Length is the length of the transmitted body.
C14_BodyIsParamsEncoded ==
    \A x \in DOMAIN xhrs :
        LET p == xhrs[x].params
        IN  /\ xhrs[x].sent
            /\ xhrs[x].body = Text(IF p.type = "string" THEN p.str
                                   ELSE urlSerialize(p.pairs))
            /\ xhrs[x].contentLength = Len(xhrs[x].body.text)

\* the post call x is new in this step, or was waiting for its response
Awaiting(x) ==
    x \in DOMAIN xhrs =>
        xhrs[x].readyState # 4 /\ xhrs[x].handler = "onComplete"

\* C15: when a post that is waiting for its response completes with one
\* (readyState 4, at once when send returns or on a readystatechange
\* event), complete(responseText) is invoked if the status is in 200..299
\* and only then; for every other status error(status, statusText) is
\* invoked with the status and status text of the response.
C15_SuccessIffStatus2xx ==
    [][\A x \in DOMAIN xhrs' :
          (Awaiting(x) /\ xhrs'[x].sent /\ xhrs'[x].readyState = 4) =>
              LET nC == IF x \in DOMAIN xhrs THEN xhrs[x].nComplete ELSE 0
                  nE == IF x \in DOMAIN xhrs THEN xhrs[x].nError ELSE 0
                  st == xhrs'[x].status
              IN  IF 200 <= st /\ st <= 299
                  THEN /\ xhrs'[x].nComplete = nC + 1
                       /\ xhrs'[x].gotBody = "full"
                       /\ xhrs'[x].nError = nE
                  ELSE /\ xhrs'[x].nError = nE + 1
                       /\ xhrs'[x].errArgs = <<st, StatusText(st)>>
                       /\ xhrs'[x].nComplete = nC
      ]_vars

\* a post answered with status 299 before its timer fired, and its
\* complete callback has run
C15_Witness ==
    \E x \in DOMAIN xhrs :
        /\ xhrs[x].readyState = 4 /\ xhrs[x].status = 299
        /\ xhrs[x].timer = "armed"
        /\ xhrs[x].nComplete = 1 /\ xhrs[x].gotBody = "full"

====
